---------------------------- MODULE Spec2Model ----------------------------
(***************************************************************************)
(* Model of the Trade Opportunities API gateway (src/trade.py): the        *)
(* process-wide token map SESSION_KEYS, the per-identity sliding windows   *)
(* RATE_LIMITER, the FastAPI dependency chain get_current_user_id ->       *)
(* rate_limit_dependency -> analyze_sector, and the tenacity-wrapped       *)
(* outbound call AIService._make_api_call.                                 *)
(*                                                                         *)
(* FastAPI runs the two synchronous dependencies in worker threads, so     *)
(* every Python statement of rate_limit_dependency is a separate step that *)
(* other requests may interleave with.  The coroutine analyze_sector runs  *)
(* on the event loop and is suspended only at its awaits (the outbound     *)
(* post and the backoff sleep).                                            *)
(***************************************************************************)
EXTENDS Integers, Sequences, FiniteSets, TLC

(***************************************************************************)
(* Program constants.                                                      *)
(***************************************************************************)
RATE_LIMIT_PER_MINUTE == 5
RATE_LIMIT_INTERVAL == 60
\* stop_after_attempt(5), wait_exponential(min=2, max=30)
STOP_AFTER_ATTEMPT == 5
WAIT_MIN == 2
WAIT_MAX == 30
\* 2 <= len(sector) <= 50
SECTOR_MIN_LEN == 2
SECTOR_MAX_LEN == 50
\* secrets.token_hex(16) / secrets.token_hex(32)
TEST_KEY_BYTES == 16
NEW_KEY_BYTES == 32

(***************************************************************************)
(* Bounds of the model.                                                    *)
(***************************************************************************)
\* /auth calls
MaxTokens == 2
\* Spec: admission decisions taken
MaxCalls == 6
\* SpecConc: admission decisions taken or pending
MaxCallsConc == 6
\* SpecWindow: admission decisions taken
MaxCallsWindow == 8
\* SpecWindow: the clock takes the values 0..Burst and, one full window
\* later, RATE_LIMIT_INTERVAL .. RATE_LIMIT_INTERVAL+Late
Burst == 5
Late == 1
\* SpecParse, SpecOutage, SpecStall: admission decisions taken or pending
MaxCallsParse == 3
MaxCallsOutage == 6
MaxCallsStall == 3

\* the worker threads that serve requests; the specifications that serve one
\* request at a time use MainThread only
Threads == {1, 2}
MainThread == CHOOSE r \in Threads : \A q \in Threads : r <= q

Instants ==
    (0..Burst) \cup (RATE_LIMIT_INTERVAL..(RATE_LIMIT_INTERVAL + Late))

(***************************************************************************)
(* Strings.  A string is modelled by its length and a number standing for  *)
(* its content: two strings are equal iff both agree.                      *)
(***************************************************************************)
Str(len, val) == [len |-> len, val |-> val]

\* secrets.token_hex(nbytes): 2*nbytes hexadecimal digits drawn at random.
\* The content ranges over 1..MaxTokens.
token_hex(nbytes) == {Str(2 * nbytes, v) : v \in 1..MaxTokens}

TEST_API_KEY == Str(2 * TEST_KEY_BYTES, 1)
TEST_USER == Str(9, 0)             \* "test_user"
BogusKey == Str(7, 0)              \* a key no endpoint ever issued

\* The X-API-Key header values a client may present.
KeyInputs == {TEST_API_KEY, BogusKey} \cup token_hex(NEW_KEY_BYTES)

(***************************************************************************)
(* Sector strings: sequences of characters.                                *)
(***************************************************************************)
Letters == {"I", "T", "a"}
Digits == {"1"}
Whitespace == {" "}

Rep(c, n) == [i \in 1..n |-> c]

SectorInputs ==
    { <<"I", "T">>,                 \* "IT"
      <<"I">>,                      \* too short
      <<"I", "-", "T">>,            \* hyphen
      Rep("a", SECTOR_MAX_LEN + 1)  \* too long
    }

\* re.match(r"^[A-Za-z0-9&\s]+$", sector)
SectorCharOk(c) == c \in Letters \cup Digits \cup Whitespace \cup {"&"}

\* line 152: 2 <= len(sector) <= 50 and re.match(...)
SectorValid(s) ==
    /\ SECTOR_MIN_LEN <= Len(s)
    /\ Len(s) <= SECTOR_MAX_LEN
    /\ \A i \in 1..Len(s) : SectorCharOk(s[i])

\* main.py, SectorRequest: Field(..., min_length=2, max_length=50,
\*                               regex=r'^[A-Za-z0-9\s&-]+$')
SectorRequestCharOk(c) ==
    c \in Letters \cup Digits \cup Whitespace \cup {"&", "-"}

SectorRequestValid(s) ==
    /\ SECTOR_MIN_LEN <= Len(s)
    /\ Len(s) <= SECTOR_MAX_LEN
    /\ \A i \in 1..Len(s) : SectorRequestCharOk(s[i])

(***************************************************************************)
(* The JSON document response.json() returns, by its shape: which of the   *)
(* keys the code reads are there, and whether the lists are empty.         *)
(* attributions is groundingMetadata.groundingAttributions, each entry by  *)
(* the uri and the title of its 'web' object ("" when the key is missing); *)
(* the empty sequence also stands for no groundingMetadata at all.         *)
(***************************************************************************)
Json(candidates, content, parts, text, attributions) ==
    [candidates |-> candidates, content |-> content, parts |-> parts,
     text |-> text, attributions |-> attributions]

Attribution(uri, title) == [uri |-> uri, title |-> title]

\* the document of a well-formed answer, with one usable source
FullJson ==
    Json("list", "dict", "list", "str", <<Attribution("uri", "title")>>)
\* {}
EmptyJson == Json("missing", "missing", "missing", "missing", <<>>)

JsonInputs ==
    { FullJson,
      \* one source without a title, one usable source
      Json("list", "dict", "list", "str",
           <<Attribution("uri", ""), Attribution("uri", "title")>>),
      EmptyJson,                                             \* {}
      Json("empty", "missing", "missing", "missing", <<>>),  \* candidates: []
      Json("list", "missing", "missing", "missing", <<>>),   \* [{}]
      Json("list", "dict", "missing", "missing", <<>>),      \* content: {}
      Json("list", "dict", "empty", "missing", <<>>),        \* parts: []
      Json("list", "dict", "list", "missing", <<>>),         \* parts: [{}]
      \* no text, but grounding metadata
      Json("list", "dict", "list", "missing",
           <<Attribution("uri", "title")>>)
    }

(***************************************************************************)
(* The external service: what one outbound post can end in.  status 0      *)
(* stands for no response at all (connection error, 60 s timeout).         *)
(***************************************************************************)
TransportError == [kind |-> "transport_error", status |-> 0, json |-> EmptyJson]
HttpResponse(code) == [kind |-> "response", status |-> code, json |-> FullJson]
\* a 200 response with the given document
JsonResponse(json) == [HttpResponse(200) EXCEPT !.json = json]

AttemptOutcomes ==
    {HttpResponse(200), HttpResponse(400), HttpResponse(500), TransportError}

\* response.raise_for_status(): no exception for a 2xx response
NoException == [type |-> "none", status |-> 0]
RetryError == [type |-> "RetryError", status |-> 0]
\* [][0]
IndexError == [type |-> "IndexError", status |-> 0]

\* lines 81-82: the exception one attempt raises
RaisedBy(outcome) ==
    IF outcome.kind = "transport_error"
    THEN [type |-> "TransportError", status |-> 0]
    ELSE IF outcome.status >= 400
         THEN [type |-> "HTTPStatusError", status |-> outcome.status]
         ELSE NoException

(***************************************************************************)
(* tenacity: @retry(wait=wait_exponential(min=2, max=30),                  *)
(*                  stop=stop_after_attempt(5), reraise=True)              *)
(***************************************************************************)
Pow2(n) == IF n <= 0 THEN 1 ELSE 2 ^ n
Max2(a, b) == IF a >= b THEN a ELSE b
Min2(a, b) == IF a <= b THEN a ELSE b

\* wait_exponential(multiplier=1, min=2, max=30) after the attempt numbered n:
\* max(min, min(multiplier * 2 ** (n - 1), max))
wait_exponential(n) == Max2(WAIT_MIN, Min2(Pow2(n - 1), WAIT_MAX))

\* stop_after_attempt(5)
stop_after_attempt(n) == n >= STOP_AFTER_ATTEMPT

\* no retry= argument: tenacity retries on every exception
retry_if_exception(exc) == exc.type # "none"

\* reraise=True: when the attempts are used up the last exception is raised
\* again, not wrapped in a RetryError
RERAISE == TRUE
retry_exhausted(last_exc) == IF RERAISE THEN last_exc ELSE RetryError

(***************************************************************************)
(* Responses of the gateway.                                               *)
(***************************************************************************)
\* A response by its status code and detail; code, max and per are the
\* numbers the detail carries; sector, markdown_report, report_sector (the
\* sector name inside a placeholder report) and grounding_sources are the
\* fields of an AnalysisReport.
NoResponse ==
    [status |-> 0, detail |-> "", code |-> 0, max |-> 0, per |-> 0,
     sector |-> <<>>, markdown_report |-> "", report_sector |-> <<>>,
     grounding_sources |-> <<>>]
Response(s, d) == [NoResponse EXCEPT !.status = s, !.detail = d]

\* class InvalidAPIKey, lines 46-51
InvalidAPIKey == Response(401, "Invalid or expired API key")
\* class RateLimitExceeded, lines 39-44: the detail carries both parameters
RateLimitExceeded ==
    [Response(429, "Rate limit exceeded") EXCEPT
        !.max = RATE_LIMIT_PER_MINUTE, !.per = RATE_LIMIT_INTERVAL]
\* lines 153-156
InvalidSector == Response(400, "Invalid sector name")

\* generate_analysis, lines 113-121: the except clauses in order
MapException(exc) ==
    IF exc.type = "RetryError"
    THEN Response(503, "AI service failed after retries.")
    ELSE IF exc.type = "HTTPStatusError"
         THEN [Response(500, "External API error") EXCEPT
                  !.code = exc.status]
         ELSE Response(500, "Unexpected error")

\* str.strip(): leading and trailing whitespace removed
RECURSIVE LStrip(_)
LStrip(s) ==
    IF s # <<>> /\ Head(s) \in Whitespace THEN LStrip(Tail(s)) ELSE s
RECURSIVE RStrip(_)
RStrip(s) ==
    IF s # <<>> /\ s[Len(s)] \in Whitespace
    THEN RStrip(SubSeq(s, 1, Len(s) - 1))
    ELSE s
Strip(s) == RStrip(LStrip(s))

\* lines 105-111: the attributions with both a uri and a title
GroundingSources(attributions) ==
    SelectSeq(attributions, LAMBDA web : web.uri # "" /\ web.title # "")

\* lines 101-112: the analysis read from the document, or the exception the
\* reading raises.  [{}] is the default of both .get calls with a list.
ParseResult(result, sector) ==
    IF result.candidates = "empty"
    THEN [exc |-> IndexError, markdown_report |-> "",
          report_sector |-> <<>>, grounding_sources |-> <<>>]
    ELSE LET candidate ==
                 IF result.candidates = "missing" THEN EmptyJson ELSE result
             content ==
                 IF candidate.content = "missing" THEN EmptyJson ELSE candidate
         IN  IF content.parts = "empty"
             THEN [exc |-> IndexError, markdown_report |-> "",
                   report_sector |-> <<>>, grounding_sources |-> <<>>]
             ELSE LET part == IF content.parts = "missing"
                              THEN EmptyJson ELSE content
                  IN  [exc |-> NoException,
                       markdown_report |->
                           IF part.text = "missing"
                           THEN "No data generated for {sector}."
                           ELSE "generated_text",
                       report_sector |->
                           IF part.text = "missing" THEN sector ELSE <<>>,
                       grounding_sources |->
                           GroundingSources(candidate.attributions)]

\* line 158: AnalysisReport(sector=sector, **analysis)
AnalysisReport(sector, analysis) ==
    [Response(200, "") EXCEPT
        !.sector = sector,
        !.markdown_report = analysis.markdown_report,
        !.report_sector = analysis.report_sector,
        !.grounding_sources = analysis.grounding_sources]

(***************************************************************************)
(* State.                                                                  *)
(***************************************************************************)
VARIABLES
    now,            \* time.time()
    SESSION_KEYS,   \* api key -> [user_id, created_at]
    RATE_LIMITER,   \* user_id -> list of admitted timestamps
    req,            \* per thread: the request it serves and its locals
    log,            \* history: user_id -> its admission decisions, in order
    issued          \* history: the keys /auth returned, in order

vars == <<now, SESSION_KEYS, RATE_LIMITER, req, log, issued>>

Idle ==
    [pc |-> "idle", api_key |-> BogusKey, sector |-> <<>>,
     user_id |-> BogusKey, current_time |-> 0, pruned |-> <<>>,
     attempt_number |-> 0, waits |-> <<>>, last_exc |-> NoException,
     result |-> EmptyJson, response |-> NoResponse,
     \* history of this request, read by the properties only
     charged |-> FALSE,
     first |-> NoException, all_failed_retryable |-> TRUE,
     overtaking |-> FALSE]

\* dict.get(key, default)
Get(d, k, default) == IF k \in DOMAIN d THEN d[k] ELSE default

\* d[k] = v
Put(d, k, v) == [x \in DOMAIN d \cup {k} |-> IF x = k THEN v ELSE d[x]]

\* lines 21-24: the module's globals after import
Init ==
    /\ now = 0
    /\ SESSION_KEYS =
           (TEST_API_KEY :> [user_id |-> TEST_USER, created_at |-> 0])
    /\ RATE_LIMITER = <<>>
    /\ req = [r \in Threads |-> Idle]
    /\ log = <<>>
    /\ issued = <<>>


(***************************************************************************)
(* The clock.  time.time() is read at line 61 and nowhere else in a        *)
(* request, so the time that passes between two readings is taken at the   *)
(* moment a request is about to read the clock: every sequence of readings *)
(* the free-running clock can give is still given.                         *)
(***************************************************************************)
Tick(instants) ==
    /\ \E r \in Threads : req[r].pc = "L61"
    /\ \E t \in instants : t > now
    /\ now' = CHOOSE t \in instants :
                  t > now /\ \A u \in instants : u > now => t <= u
    /\ UNCHANGED <<SESSION_KEYS, RATE_LIMITER, req, log, issued>>

\* get_api_key binding every new key to the identity of the test key
get_api_key_SharedIdentity ==
    /\ Len(issued) < MaxTokens
    /\ \E new_key \in token_hex(NEW_KEY_BYTES) \ DOMAIN SESSION_KEYS :
          /\ SESSION_KEYS' = Put(SESSION_KEYS, new_key,
                                 [user_id |-> TEST_USER, created_at |-> now])
          /\ issued' = Append(issued, new_key)
    /\ UNCHANGED <<now, RATE_LIMITER, req, log>>

\* get_api_key returning a second draw instead of the key it stored
get_api_key_ReturnsOtherDraw ==
    /\ Len(issued) < MaxTokens
    /\ \E new_key \in token_hex(NEW_KEY_BYTES) \ DOMAIN SESSION_KEYS :
          /\ SESSION_KEYS' = Put(SESSION_KEYS, new_key,
                                 [user_id |-> new_key, created_at |-> now])
          /\ \E other \in token_hex(NEW_KEY_BYTES) :
                issued' = Append(issued, other)
    /\ UNCHANGED <<now, RATE_LIMITER, req, log>>

\* get_api_key rotating the keys: the keys issued before are dropped from the
\* store
get_api_key_Rotates ==
    /\ Len(issued) < MaxTokens
    /\ \E new_key \in token_hex(NEW_KEY_BYTES) \ DOMAIN SESSION_KEYS :
          /\ SESSION_KEYS' =
                 Put([k \in {TEST_API_KEY} |-> SESSION_KEYS[k]], new_key,
                     [user_id |-> new_key, created_at |-> now])
          /\ issued' = Append(issued, new_key)
    /\ UNCHANGED <<now, RATE_LIMITER, req, log>>

(***************************************************************************)
(* POST /auth, lines 140-144.  secrets.token_hex(32) draws 256 random      *)
(* bits; the draw is modelled as a value not drawn before.                 *)
(***************************************************************************)
get_api_key ==
    /\ Len(issued) < MaxTokens
    /\ \E new_key \in token_hex(NEW_KEY_BYTES) \ DOMAIN SESSION_KEYS :
          /\ SESSION_KEYS' = Put(SESSION_KEYS, new_key,
                                 [user_id |-> new_key, created_at |-> now])
          /\ issued' = Append(issued, new_key)
    /\ UNCHANGED <<now, RATE_LIMITER, req, log>>

(***************************************************************************)
(* POST /analyze.                                                          *)
(***************************************************************************)
\* admission decisions taken so far
RECURSIVE SumLen(_, _)
SumLen(f, S) ==
    IF S = {} THEN 0
    ELSE LET x == CHOOSE y \in S : TRUE
         IN  Len(f[x]) + SumLen(f, S \ {x})

Decisions == SumLen(log, DOMAIN log)

\* log[user_id].append(entry)
Logged(user_id, current_time, admitted) ==
    Put(log, user_id,
        Append(Get(log, user_id, <<>>),
               [t |-> current_time, admitted |-> admitted]))

\* requests received and not yet answered
InFlight == Cardinality({r \in Threads : req[r].pc # "idle"})

\* the coroutine of request r is suspended at an await of _make_api_call:
\* the outbound post or the backoff sleep
Suspended(r) == req[r].pc \in {"call", "sleep"}

\* A request arrives with its X-API-Key header and its body.  Requests are
\* received as long as fewer than `limit` admission decisions were taken or
\* are pending.  overtaking records that another request was suspended at
\* that moment.
Receive(r, limit, keys, sectors) ==
    /\ req[r].pc = "idle"
    /\ Decisions + InFlight < limit
    /\ \E key \in keys, s \in sectors :
          req' = [req EXCEPT ![r] =
                     [Idle EXCEPT !.pc = "auth",
                                  !.api_key = key,
                                  !.sector = s,
                                  !.overtaking =
                                      \E q \in Threads \ {r} : Suspended(q)]]
    /\ UNCHANGED <<now, SESSION_KEYS, RATE_LIMITER, log, issued>>

\* lines 55-56: SESSION_KEYS.get(api_key) is there and holds a user_id
KeyKnown(api_key) == api_key \in DOMAIN SESSION_KEYS

\* get_current_user_id without the lookup: the header value is taken as the
\* identity
get_current_user_id_NoLookup(r) ==
    /\ req[r].pc = "auth"
    /\ req' = [req EXCEPT ![r].pc = "L61", ![r].user_id = req[r].api_key]
    /\ UNCHANGED <<now, SESSION_KEYS, RATE_LIMITER, log, issued>>

\* lines 54-58
get_current_user_id(r) ==
    /\ req[r].pc = "auth"
    /\ IF ~KeyKnown(req[r].api_key)
       THEN req' = [req EXCEPT ![r].pc = "done",
                               ![r].response = InvalidAPIKey]
       ELSE req' = [req EXCEPT ![r].pc = "L61",
                               ![r].user_id =
                                   SESSION_KEYS[req[r].api_key].user_id]
    /\ UNCHANGED <<now, SESSION_KEYS, RATE_LIMITER, log, issued>>

\* Prune with the comparison off by one: an entry exactly one window old is
\* kept
PruneInclusive(window, current_time) ==
    SelectSeq(window, LAMBDA t : t >= current_time - RATE_LIMIT_INTERVAL)

\* Prune as a fixed bucket: the count starts again at every multiple of the
\* window length
PruneFixedBucket(window, current_time) ==
    SelectSeq(window, LAMBDA t : t \div RATE_LIMIT_INTERVAL
                                     = current_time \div RATE_LIMIT_INTERVAL)

\* line 63: the entries the comprehension keeps
Prune(window, current_time) ==
    SelectSeq(window, LAMBDA t : t > current_time - RATE_LIMIT_INTERVAL)

\* line 65
OverLimit(window) == Len(window) >= RATE_LIMIT_PER_MINUTE

\* line 61: current_time = time.time()
rate_limit_L61(r) ==
    /\ req[r].pc = "L61"
    /\ req' = [req EXCEPT ![r].pc = "L63", ![r].current_time = now]
    /\ UNCHANGED <<now, SESSION_KEYS, RATE_LIMITER, log, issued>>

\* lines 62-64, right-hand side: the list comprehension builds a new list
rate_limit_L63(r) ==
    /\ req[r].pc = "L63"
    /\ req' = [req EXCEPT
                 ![r].pc = "L62",
                 ![r].pruned = Prune(Get(RATE_LIMITER, req[r].user_id, <<>>),
                                     req[r].current_time)]
    /\ UNCHANGED <<now, SESSION_KEYS, RATE_LIMITER, log, issued>>

\* line 62: RATE_LIMITER[user_id] = <the new list>
rate_limit_L62(r) ==
    /\ req[r].pc = "L62"
    /\ RATE_LIMITER' = Put(RATE_LIMITER, req[r].user_id, req[r].pruned)
    /\ req' = [req EXCEPT ![r].pc = "L65", ![r].pruned = <<>>]
    /\ UNCHANGED <<now, SESSION_KEYS, log, issued>>

\* rate_limit_L65 with the timestamp recorded before the length test, so that
\* a rejected attempt is counted
rate_limit_L65_CountsRejected(r) ==
    /\ req[r].pc = "L65"
    /\ IF Len(RATE_LIMITER[req[r].user_id]) >= RATE_LIMIT_PER_MINUTE
       THEN /\ req' = [req EXCEPT ![r].pc = "done",
                                  ![r].response = RateLimitExceeded]
            /\ RATE_LIMITER' =
                   [RATE_LIMITER EXCEPT ![req[r].user_id] =
                        Append(@, req[r].current_time)]
            /\ log' = Logged(req[r].user_id, req[r].current_time, FALSE)
       ELSE /\ req' = [req EXCEPT ![r].pc = "L67"]
            /\ UNCHANGED <<RATE_LIMITER, log>>
    /\ UNCHANGED <<now, SESSION_KEYS, issued>>

\* rate_limit_L65 without the raise: a request over the limit is noted and
\* let through to the handler
rate_limit_L65_NoRaise(r) ==
    /\ req[r].pc = "L65"
    /\ IF OverLimit(RATE_LIMITER[req[r].user_id])
       THEN /\ req' = [req EXCEPT ![r].pc = "handler"]
            /\ log' = Logged(req[r].user_id, req[r].current_time, FALSE)
       ELSE /\ req' = [req EXCEPT ![r].pc = "L67"]
            /\ log' = log
    /\ UNCHANGED <<now, SESSION_KEYS, RATE_LIMITER, issued>>

\* lines 65-66: if len(RATE_LIMITER[user_id]) >= RATE_LIMIT_PER_MINUTE: raise
rate_limit_L65(r) ==
    /\ req[r].pc = "L65"
    /\ IF OverLimit(RATE_LIMITER[req[r].user_id])
       THEN /\ req' = [req EXCEPT ![r].pc = "done",
                                  ![r].response = RateLimitExceeded]
            /\ log' = Logged(req[r].user_id, req[r].current_time, FALSE)
       ELSE /\ req' = [req EXCEPT ![r].pc = "L67"]
            /\ log' = log
    /\ UNCHANGED <<now, SESSION_KEYS, RATE_LIMITER, issued>>

\* line 67: RATE_LIMITER[user_id].append(current_time)
rate_limit_L67(r) ==
    /\ req[r].pc = "L67"
    /\ RATE_LIMITER' =
           [RATE_LIMITER EXCEPT ![req[r].user_id] =
                Append(RATE_LIMITER[req[r].user_id], req[r].current_time)]
    /\ req' = [req EXCEPT ![r].pc = "handler", ![r].charged = TRUE]
    /\ log' = Logged(req[r].user_id, req[r].current_time, TRUE)
    /\ UNCHANGED <<now, SESSION_KEYS, issued>>

\* lines 147-157, up to the first await: the outbound post is in flight
analyze_sector(r) ==
    /\ req[r].pc = "handler"
    /\ IF ~SectorValid(req[r].sector)
       THEN req' = [req EXCEPT ![r].pc = "done",
                               ![r].response = InvalidSector]
       ELSE req' = [req EXCEPT ![r].pc = "call"]
    /\ UNCHANGED <<now, SESSION_KEYS, RATE_LIMITER, log, issued>>

\* lines 78-83 under the retry decorator, and lines 99-121: one attempt ends
\* in `outcome`; tenacity returns, sleeps, or gives up
make_api_call(r, outcomes) ==
    /\ req[r].pc = "call"
    /\ \E outcome \in outcomes :
          LET n == req[r].attempt_number + 1
              exc == RaisedBy(outcome)
              seen == [req[r] EXCEPT
                         !.attempt_number = n,
                         !.last_exc = exc,
                         !.first = IF n = 1 THEN exc ELSE @,
                         !.all_failed_retryable =
                             @ /\ (exc.type = "none"
                                   \/ exc.type = "TransportError"
                                   \/ exc.status >= 500)]
              analysis == ParseResult(outcome.json, Strip(req[r].sector))
          IN  IF ~retry_if_exception(exc)
              THEN req' = [req EXCEPT ![r] =
                              [seen EXCEPT
                                 !.pc = "done",
                                 !.result = outcome.json,
                                 !.response =
                                     IF analysis.exc.type = "none"
                                     THEN AnalysisReport(req[r].sector,
                                                         analysis)
                                     ELSE MapException(analysis.exc)]]
              ELSE IF stop_after_attempt(n)
                   THEN req' = [req EXCEPT ![r] =
                                   [seen EXCEPT
                                      !.pc = "done",
                                      !.response =
                                          MapException(retry_exhausted(exc))]]
                   ELSE req' = [req EXCEPT ![r] =
                                   [seen EXCEPT
                                      !.pc = "sleep",
                                      !.waits =
                                          Append(@, wait_exponential(n))]]
    /\ UNCHANGED <<now, SESSION_KEYS, RATE_LIMITER, log, issued>>

\* the backoff sleep between two attempts is over
backoff_sleep(r) ==
    /\ req[r].pc = "sleep"
    /\ req' = [req EXCEPT ![r].pc = "call"]
    /\ UNCHANGED <<now, SESSION_KEYS, RATE_LIMITER, log, issued>>

\* Respond giving the slot back when the call failed upstream: the quota is
\* charged on success only
Respond_RefundsFailure(r) ==
    /\ req[r].pc = "done"
    /\ req' = [req EXCEPT ![r] = Idle]
    /\ IF req[r].charged /\ req[r].response.status >= 500
       THEN RATE_LIMITER' =
                [RATE_LIMITER EXCEPT ![req[r].user_id] =
                     SubSeq(@, 1, Len(@) - 1)]
       ELSE RATE_LIMITER' = RATE_LIMITER
    /\ UNCHANGED <<now, SESSION_KEYS, log, issued>>

\* the response is sent; the thread is free for the next request
Respond(r) ==
    /\ req[r].pc = "done"
    /\ req' = [req EXCEPT ![r] = Idle]
    /\ UNCHANGED <<now, SESSION_KEYS, RATE_LIMITER, log, issued>>

\* Step with a sleep that blocks the event loop: while one call waits for its
\* next attempt nothing else runs
Step_BlockingSleep(r, limit, keys, sectors, outcomes) ==
    /\ \A q \in Threads \ {r} : req[q].pc # "sleep"
    /\ \/ Receive(r, limit, keys, sectors)
       \/ get_current_user_id(r)
       \/ rate_limit_L61(r)
       \/ rate_limit_L63(r)
       \/ rate_limit_L62(r)
       \/ rate_limit_L65(r)
       \/ rate_limit_L67(r)
       \/ analyze_sector(r)
       \/ make_api_call(r, outcomes)
       \/ backoff_sleep(r)
       \/ Respond(r)

\* one step of the request served by thread r
Step(r, limit, keys, sectors, outcomes) ==
    \/ Receive(r, limit, keys, sectors)
    \/ get_current_user_id(r)
    \/ rate_limit_L61(r)
    \/ rate_limit_L63(r)
    \/ rate_limit_L62(r)
    \/ rate_limit_L65(r)
    \/ rate_limit_L67(r)
    \/ analyze_sector(r)
    \/ make_api_call(r, outcomes)
    \/ backoff_sleep(r)
    \/ Respond(r)

(***************************************************************************)
(* Spec: the whole pipeline, one request at a time, with every kind of     *)
(* key, sector and outcome of the external service, all within one reading *)
(* of the clock (a burst).                                                 *)
(***************************************************************************)
Next ==
    \/ get_api_key
    \/ Step(MainThread, MaxCalls, KeyInputs, SectorInputs, AttemptOutcomes)

Spec == Init /\ [][Next]_vars

(***************************************************************************)
(* SpecConc: requests of one client (the test key) served concurrently by  *)
(* the worker threads, within one reading of the clock.  The external      *)
(* service answers 200 or 500.                                             *)
(***************************************************************************)
SectorInputsShort == {<<"I", "T">>, <<"I">>}
AttemptOutcomesShort == {HttpResponse(200), HttpResponse(500)}

NextConc ==
    \E r \in Threads :
        Step(r, MaxCallsConc, KeyInputs, SectorInputsShort,
             AttemptOutcomesShort)

SpecConc == Init /\ [][NextConc]_vars

(***************************************************************************)
(* SpecWindow: requests of one client (the test key) over more than a full *)
(* window, one request at a time.                                          *)
(***************************************************************************)
NextWindow ==
    \/ Tick(Instants)
    \/ Step(MainThread, MaxCallsWindow, KeyInputs, SectorInputsShort,
            AttemptOutcomesShort)

SpecWindow == Init /\ [][NextWindow]_vars

(***************************************************************************)
(* SpecParse: requests of one client, one at a time, to an external        *)
(* service that fails with a 5xx or at transport level, or answers 200     *)
(* with any of the documents of JsonInputs.                                *)
(***************************************************************************)
SectorInputsParse == {<<"I", "T">>, <<"I", "T", " ">>}
AttemptOutcomesParse ==
    {JsonResponse(json) : json \in JsonInputs}
        \cup {HttpResponse(500), TransportError}

NextParse ==
    Step(MainThread, MaxCallsParse, {TEST_API_KEY}, SectorInputsParse,
         AttemptOutcomesParse)

SpecParse == Init /\ [][NextParse]_vars

(***************************************************************************)
(* SpecOutage: requests of one client, one at a time, while the external   *)
(* service is down: every outbound attempt fails.                          *)
(***************************************************************************)
AttemptOutcomesOutage ==
    {HttpResponse(400), HttpResponse(500), TransportError}

NextOutage ==
    Step(MainThread, MaxCallsOutage, {TEST_API_KEY, BogusKey},
         {<<"I", "T">>}, AttemptOutcomesOutage)

SpecOutage == Init /\ [][NextOutage]_vars

(***************************************************************************)
(* SpecStall: /auth and the requests of two clients, served concurrently   *)
(* by the worker threads.                                                  *)
(***************************************************************************)
\* the clients: one holds the test key, one a key that /auth may issue
KeyInputsStall ==
    {TEST_API_KEY, CHOOSE key \in token_hex(NEW_KEY_BYTES) : TRUE}

ServeStall(r) ==
    Step(r, MaxCallsStall, KeyInputsStall, {<<"I", "T">>},
         AttemptOutcomesShort)

NextStall ==
    \/ get_api_key
    \/ \E r \in Threads : ServeStall(r)

SpecStall == Init /\ [][NextStall]_vars


(***************************************************************************)
(* Properties.                                                             *)
(***************************************************************************)
\* the admission decisions logged for an identity
LogOf(u) == Get(log, u, <<>>)

\* the timestamps admitted for identity u, in order
AdmittedTimes(u) ==
    LET adm == SelectSeq(LogOf(u), LAMBDA e : e.admitted)
    IN  [i \in 1..Len(adm) |-> adm[i].t]

\* how many requests of identity u were admitted at times in (lo, hi]
AdmittedIn(u, lo, hi) ==
    LET l == LogOf(u)
    IN  Cardinality({i \in 1..Len(l) :
                        l[i].admitted /\ l[i].t > lo /\ l[i].t <= hi})

\* how many requests of identity u were admitted at times after lo
AdmittedAfter(u, lo) ==
    LET l == LogOf(u)
    IN  Cardinality({i \in 1..Len(l) : l[i].admitted /\ l[i].t > lo})

\* w is a suffix of s
IsSuffix(w, s) ==
    /\ Len(w) <= Len(s)
    /\ \A i \in 1..Len(w) : w[i] = s[Len(s) - Len(w) + i]

Entry(time, adm) == [t |-> time, admitted |-> adm]

\* the check of request r has passed line 65 and is about to append
Passing(r) == req[r].pc = "L67"
\* the check of request r has raised RateLimitExceeded
Rejected(r) == req[r].pc = "done" /\ req[r].response.status = 429

\* C1: an admission check at time current_time admits the request iff fewer
\* than RATE_LIMIT_PER_MINUTE timestamps t of the identity's earlier
\* admissions satisfy t > current_time - RATE_LIMIT_INTERVAL (a timestamp
\* exactly one window old is not counted).
C1_AdmitIffBelowLimit ==
    \A r \in Threads :
        LET u == req[r].user_id
            ct == req[r].current_time
            live == AdmittedAfter(u, ct - RATE_LIMIT_INTERVAL)
        IN  /\ Passing(r) => live < RATE_LIMIT_PER_MINUTE
            /\ Rejected(r) => live >= RATE_LIMIT_PER_MINUTE

\* C1's case: admitted at 0,1,2,3,4, rejected at 5, admitted again at 61.
C1_Witness ==
    LogOf(TEST_USER) =
        << Entry(0, TRUE), Entry(1, TRUE), Entry(2, TRUE), Entry(3, TRUE),
           Entry(4, TRUE), Entry(5, FALSE),
           Entry(RATE_LIMIT_INTERVAL + 1, TRUE) >>

\* C2: for every identity and every time T, at most RATE_LIMIT_PER_MINUTE
\* requests were admitted at times in (T - RATE_LIMIT_INTERVAL, T].  T ranges
\* over the values of the clock: the admissions in the window ending at any
\* other T are among those in the window ending at the last clock value
\* before T.
C2_SlidingWindow ==
    \A u \in DOMAIN log :
        \A T \in Instants :
            AdmittedIn(u, T - RATE_LIMIT_INTERVAL, T) <= RATE_LIMIT_PER_MINUTE

\* C2's case: a burst on both sides of the boundary: the window ending one
\* full interval after the first admission is full, and it was refilled
\* only as far as old entries had left it.
C2_Witness ==
    /\ AdmittedIn(TEST_USER, -1, 0) >= 1
    /\ AdmittedIn(TEST_USER, RATE_LIMIT_INTERVAL - 1, RATE_LIMIT_INTERVAL) >= 1
    /\ AdmittedIn(TEST_USER, 0, RATE_LIMIT_INTERVAL) = RATE_LIMIT_PER_MINUTE
    /\ \E i \in 1..Len(LogOf(TEST_USER)) :
          /\ ~LogOf(TEST_USER)[i].admitted
          /\ LogOf(TEST_USER)[i].t = RATE_LIMIT_INTERVAL

\* C3 (as claimed): the admission checks of one identity behave as atomic
\* steps: the window never holds more than RATE_LIMIT_PER_MINUTE live
\* timestamps, no more than that many requests are admitted within one
\* window, and no admitted timestamp is missing from the window.
C3_Linearizable ==
    \A u \in DOMAIN RATE_LIMITER :
        LET admitted == AdmittedIn(u, now - RATE_LIMIT_INTERVAL, now)
        IN  /\ Len(Prune(RATE_LIMITER[u], now)) <= RATE_LIMIT_PER_MINUTE
            /\ admitted <= RATE_LIMIT_PER_MINUTE
            /\ admitted <= Len(RATE_LIMITER[u])

\* C4: a rejected check appends nothing: the window is always a suffix of
\* the identity's admitted timestamps, and a check is rejected only while the
\* oldest of the last RATE_LIMIT_PER_MINUTE admitted timestamps is still
\* inside the window, however many checks were rejected before.
C4_RejectedNotCounted ==
    /\ \A u \in DOMAIN RATE_LIMITER :
          IsSuffix(RATE_LIMITER[u], AdmittedTimes(u))
    /\ \A r \in Threads :
          Rejected(r) =>
              LET adm == AdmittedTimes(req[r].user_id)
              IN  /\ Len(adm) >= RATE_LIMIT_PER_MINUTE
                  /\ adm[Len(adm) - RATE_LIMIT_PER_MINUTE + 1]
                         > req[r].current_time - RATE_LIMIT_INTERVAL
                  /\ RATE_LIMITER[req[r].user_id]
                         = Prune(adm, req[r].current_time)

\* C4's case: five admissions, two rejected attempts, and the first check
\* after the oldest admission has left the window is admitted.
C4_Witness ==
    LogOf(TEST_USER) =
        << Entry(0, TRUE), Entry(1, TRUE), Entry(2, TRUE), Entry(3, TRUE),
           Entry(4, TRUE), Entry(4, FALSE), Entry(5, FALSE),
           Entry(RATE_LIMIT_INTERVAL, TRUE) >>


\* the window of identity u changes (or is created) in this step
WindowChanges(u) ==
    /\ u \in DOMAIN RATE_LIMITER'
    /\ u \notin DOMAIN RATE_LIMITER \/ RATE_LIMITER'[u] # RATE_LIMITER[u]

\* request r, authenticated as u, executes a statement of
\* rate_limit_dependency in this step
ChecksAs(r, u) ==
    /\ req[r].user_id = u
    /\ req[r].pc \in {"L62", "L67"}
    /\ req'[r].pc # req[r].pc

\* C5: an admission check for one identity leaves the window of every other
\* identity unchanged; a request is rejected only on the strength of its own
\* identity's admissions and admitted whenever those are below the limit;
\* and two distinct keys of the store never stand for the same identity.
C5_Isolation ==
    /\ [][\A u \in DOMAIN RATE_LIMITER' :
             WindowChanges(u) => \E r \in Threads : ChecksAs(r, u)]_vars
    /\ [](\A r \in Threads :
             LET own == AdmittedAfter(req[r].user_id,
                            req[r].current_time - RATE_LIMIT_INTERVAL)
             IN  /\ Rejected(r) => own >= RATE_LIMIT_PER_MINUTE
                 /\ Passing(r) => own < RATE_LIMIT_PER_MINUTE)
    /\ [](\A k1, k2 \in DOMAIN SESSION_KEYS :
             k1 # k2 => SESSION_KEYS[k1].user_id # SESSION_KEYS[k2].user_id)

\* C5's case: the test user has used up its quota and a request under an
\* issued key has just been admitted.
C5_Witness ==
    /\ TEST_USER \in DOMAIN RATE_LIMITER
    /\ Len(RATE_LIMITER[TEST_USER]) = RATE_LIMIT_PER_MINUTE
    /\ \E r \in Threads :
          /\ req[r].pc = "handler"
          /\ req[r].charged
          /\ req[r].api_key \in token_hex(NEW_KEY_BYTES)
          /\ req[r].user_id # TEST_USER

\* C6: the keys /auth returned are pairwise distinct and differ from every
\* key that was in the store before, each is accepted by
\* get_current_user_id from the moment it is returned, and every key of the
\* store stands for one identity of its own.
C6_TokenUniqueness ==
    /\ \A i, j \in 1..Len(issued) : i # j => issued[i] # issued[j]
    /\ \A i \in 1..Len(issued) :
          /\ issued[i] # TEST_API_KEY
          /\ KeyKnown(issued[i])
          /\ SESSION_KEYS[issued[i]].user_id = issued[i]
    /\ Cardinality(DOMAIN SESSION_KEYS) = 1 + Len(issued)

\* C6's case: two keys were issued, one after the other.
C6_Witness ==
    /\ Len(issued) >= 2
    /\ KeyKnown(issued[1])
    /\ KeyKnown(issued[2])

\* the spec's classes of failure of one attempt
RetryableFailure(exc) ==
    \/ exc.type = "TransportError"
    \/ exc.type = "HTTPStatusError" /\ (exc.status >= 500 \/ exc.status = 429)
FatalFailure(exc) ==
    /\ exc.type = "HTTPStatusError"
    /\ exc.status >= 400 /\ exc.status < 500 /\ exc.status # 429

Answered(r) == req[r].pc = "done"

\* C7 (as claimed): a call whose every attempt ends in a retryable failure
\* makes exactly STOP_AFTER_ATTEMPT attempts, never one more, and then fails
\* with the 503 "failed after retries" outcome.
C7_RetryTermination ==
    \A r \in Threads :
        /\ req[r].attempt_number <= STOP_AFTER_ATTEMPT
        /\ ( /\ Answered(r)
             /\ req[r].attempt_number >= 1
             /\ req[r].all_failed_retryable
             /\ RetryableFailure(req[r].last_exc) )
           => /\ req[r].attempt_number = STOP_AFTER_ATTEMPT
              /\ req[r].response.status = 503

\* C8 (as claimed): a call whose first attempt ends in a fatal failure makes
\* that one attempt only, waits for no backoff, and fails with an outcome
\* other than the 503 one.
C8_FatalShortCircuit ==
    \A r \in Threads :
        (req[r].attempt_number >= 1 /\ FatalFailure(req[r].first))
        => /\ req[r].attempt_number = 1
           /\ req[r].waits = <<>>
           /\ Answered(r)
           /\ req[r].response.status \notin {200, 503}

\* C9 (as claimed): a call answered with "Invalid sector name" has appended
\* no timestamp to its caller's window.
C9_InvalidInputNotCharged ==
    \A r \in Threads :
        (Answered(r) /\ req[r].response = InvalidSector) => ~req[r].charged

\* C10 (as claimed): a call with a malformed sector is answered with
\* "Invalid sector name" whatever its key: unknown, known, or over quota.
C10_InputValidationFirst ==
    \A r \in Threads :
        (Answered(r) /\ ~SectorValid(req[r].sector))
        => req[r].response = InvalidSector

\* request r takes a step
Moves(r) == req'[r] # req[r]

\* C11: a call whose key is not in the store is answered with InvalidAPIKey
\* in the one step that looks the key up, and that step creates or changes
\* no window; a call answered so has read no clock, appended no timestamp
\* and made no outbound attempt.
C11_UnknownTokenRejected ==
    /\ [][\A r \in Threads :
             (req[r].pc = "auth" /\ ~KeyKnown(req[r].api_key) /\ Moves(r))
             => /\ req'[r].pc = "done"
                /\ req'[r].response = InvalidAPIKey
                /\ RATE_LIMITER' = RATE_LIMITER
                /\ log' = log]_vars
    /\ [](\A r \in Threads :
             (Answered(r) /\ req[r].response = InvalidAPIKey)
             => /\ ~req[r].charged
                /\ req[r].attempt_number = 0
                /\ req[r].waits = <<>>
                /\ req[r].user_id \notin DOMAIN RATE_LIMITER)
    /\ [](\A u \in DOMAIN RATE_LIMITER :
             \E k \in DOMAIN SESSION_KEYS : SESSION_KEYS[k].user_id = u)

\* C11's case: a well-formed sector under a key nobody issued has been
\* answered 401 while the test user's window holds entries.
C11_Witness ==
    /\ TEST_USER \in DOMAIN RATE_LIMITER
    /\ RATE_LIMITER[TEST_USER] # <<>>
    /\ \E r \in Threads :
          /\ Answered(r)
          /\ req[r].api_key = BogusKey
          /\ SectorValid(req[r].sector)
          /\ req[r].response = InvalidAPIKey

\* the first candidate's generated text is absent from the document
TextAbsent(json) ==
    \/ json.candidates \in {"missing", "empty"}
    \/ json.content = "missing"
    \/ json.parts \in {"missing", "empty"}
    \/ json.text = "missing"

\* C12 (as claimed): a call whose last attempt got a 200 response without
\* the first candidate's text is answered 200 with the placeholder report
\* naming the sector, and with no sources when the document has no grounding
\* metadata.
C12_MalformedSuccessDegrades ==
    \A r \in Threads :
        ( /\ Answered(r)
          /\ req[r].attempt_number >= 1
          /\ req[r].last_exc = NoException
          /\ TextAbsent(req[r].result) )
        => /\ req[r].response.status = 200
           /\ req[r].response.markdown_report
                  = "No data generated for {sector}."
           /\ req[r].response.report_sector = Strip(req[r].sector)
           /\ req[r].result.attributions = <<>>
                  => req[r].response.grounding_sources = <<>>

\* the spec's rule for a sector string
SectorRule(s) ==
    /\ Len(s) >= 2
    /\ Len(s) <= 50
    /\ \A i \in 1..Len(s) :
          s[i] \in Letters \cup Digits \cup {" ", "&", "-"}

\* C13 (as claimed): a call that reached the sector check is let through
\* iff its sector has 2 to 50 characters, all of them letters, digits,
\* spaces, ampersands or hyphens, and the SectorRequest model of main.py
\* accepts exactly the sectors that check accepts.
C13_SectorValidation ==
    \A r \in Threads :
        (req[r].charged /\ req[r].pc # "handler")
        => /\ (req[r].response # InvalidSector) <=> SectorRule(req[r].sector)
           /\ SectorValid(req[r].sector) <=> SectorRequestValid(req[r].sector)

\* C14 (as claimed): the waits of one call start at WAIT_MIN, each later one
\* is the double of the one before capped at WAIT_MAX, they never decrease,
\* none is below WAIT_MIN or above WAIT_MAX, and a call that used up its
\* STOP_AFTER_ATTEMPT attempts waited STOP_AFTER_ATTEMPT - 1 times.
C14_BackoffSchedule ==
    \A r \in Threads :
        LET w == req[r].waits
        IN  /\ Len(w) <= STOP_AFTER_ATTEMPT - 1
            /\ req[r].attempt_number = STOP_AFTER_ATTEMPT
                   => Len(w) = STOP_AFTER_ATTEMPT - 1
            /\ \A i \in 1..Len(w) :
                  /\ w[i] >= WAIT_MIN
                  /\ w[i] <= WAIT_MAX
                  /\ i = 1 => w[i] = WAIT_MIN
                  /\ i > 1 => /\ w[i] >= w[i - 1]
                              /\ w[i] = Min2(2 * w[i - 1], WAIT_MAX)

\* C15 (as claimed): every timestamp of every stored window is newer than
\* now - RATE_LIMIT_INTERVAL, a check that has come to its length test finds
\* no stale entry in its identity's window, and no stored window holds more
\* than RATE_LIMIT_PER_MINUTE entries.
C15_WindowInvariant ==
    /\ \A u \in DOMAIN RATE_LIMITER :
          /\ Len(RATE_LIMITER[u]) <= RATE_LIMIT_PER_MINUTE
          /\ \A i \in 1..Len(RATE_LIMITER[u]) :
                RATE_LIMITER[u][i] > now - RATE_LIMIT_INTERVAL
    /\ \A r \in Threads :
          req[r].pc = "L65"
          => \A i \in 1..Len(RATE_LIMITER[req[r].user_id]) :
                 RATE_LIMITER[req[r].user_id][i]
                     > req[r].current_time - RATE_LIMIT_INTERVAL

\* C16: a call that has made an outbound attempt, or is about to, presented
\* a key of the store, runs under that key's identity and was admitted (its
\* timestamp is logged as admitted); a call answered RateLimitExceeded has
\* made no attempt and its failure carries RATE_LIMIT_PER_MINUTE and
\* RATE_LIMIT_INTERVAL.
C16_PipelineOrdering ==
    \A r \in Threads :
        /\ (Suspended(r) \/ req[r].attempt_number >= 1)
           => /\ KeyKnown(req[r].api_key)
              /\ req[r].user_id = SESSION_KEYS[req[r].api_key].user_id
              /\ req[r].charged
              /\ \E i \in 1..Len(LogOf(req[r].user_id)) :
                    LogOf(req[r].user_id)[i]
                        = Entry(req[r].current_time, TRUE)
        /\ Rejected(r)
           => /\ req[r].attempt_number = 0
              /\ req[r].waits = <<>>
              /\ ~req[r].charged
              /\ req[r].response.max = RATE_LIMIT_PER_MINUTE
              /\ req[r].response.per = RATE_LIMIT_INTERVAL

\* C16's case: one call is rejected by the rate limiter while an admitted
\* call waits for its second attempt.
C16_Witness ==
    \E r, q \in Threads :
        /\ Rejected(r)
        /\ req[q].pc = "sleep"
        /\ req[q].attempt_number >= 1

\* C17: no step removes a key from the store or changes what it stands for;
\* a key of the store is accepted by get_current_user_id under the identity
\* stored with it; every issued key is in the store under its own identity;
\* /auth changes no window and no request, and it can be called whatever
\* the windows hold.
C17_TokenPersistence ==
    /\ [][\A k \in DOMAIN SESSION_KEYS :
             /\ k \in DOMAIN SESSION_KEYS'
             /\ SESSION_KEYS'[k] = SESSION_KEYS[k]]_vars
    /\ [][\A r \in Threads :
             (req[r].pc = "auth" /\ KeyKnown(req[r].api_key) /\ Moves(r))
             => /\ req'[r].pc = "L61"
                /\ req'[r].user_id = SESSION_KEYS[req[r].api_key].user_id]_vars
    /\ [][issued' # issued
             => RATE_LIMITER' = RATE_LIMITER /\ log' = log /\ req' = req]_vars
    /\ [](\A i \in 1..Len(issued) :
             /\ KeyKnown(issued[i])
             /\ SESSION_KEYS[issued[i]].user_id = issued[i])
    /\ [](Len(issued) < MaxTokens => ENABLED get_api_key)

\* C17's case: after a second key was issued and calls of the test user and
\* of the first issued key were decided, the first issued key is validated
\* again to its own identity.
C17_Witness ==
    /\ Len(issued) = 2
    /\ LogOf(TEST_USER) # <<>>
    /\ LogOf(issued[1]) # <<>>
    /\ \E r \in Threads :
          /\ req[r].pc = "L61"
          /\ req[r].api_key = issued[1]
          /\ req[r].user_id = issued[1]

\* C18: while a call is suspended in its outbound post or its backoff sleep,
\* every other request in flight can take its next step, a new request can
\* be received, and /auth can be called.
C18_NoStall ==
    \A r \in Threads :
        Suspended(r)
        => /\ \A q \in Threads \ {r} :
                 (req[q].pc # "idle" \/ Decisions + InFlight < MaxCallsStall)
                 => ENABLED ServeStall(q)
           /\ Len(issued) < MaxTokens => ENABLED get_api_key

\* C18's case: a request that arrived while another call was suspended has
\* been served to its 200 answer, a key was issued, and the other call is
\* still in its backoff sleep.
C18_Witness ==
    \E r, q \in Threads :
        /\ req[r].pc = "sleep"
        /\ ~req[r].overtaking
        /\ Answered(q)
        /\ req[q].overtaking
        /\ req[q].response.status = 200
        /\ Len(issued) >= 1

\* C19 (as claimed): no attempt follows a successful one, and a call whose
\* k-th attempt succeeds after k-1 retryable failures is answered 200 with
\* the report for its sector, after k-1 waits, with nothing of an earlier
\* failure in the answer.
C19_SuccessAfterTransient ==
    \A r \in Threads :
        /\ (Suspended(r) /\ req[r].attempt_number >= 1)
           => req[r].last_exc # NoException
        /\ ( /\ Answered(r)
             /\ req[r].attempt_number >= 1
             /\ req[r].last_exc = NoException
             /\ req[r].all_failed_retryable )
           => /\ req[r].response.status = 200
              /\ req[r].response.code = 0
              /\ req[r].response.sector = req[r].sector
              /\ Len(req[r].waits) = req[r].attempt_number - 1

\* C20: no step of a call after its admission (the handler, an outbound
\* attempt, a backoff sleep, the answer) changes a window: every admitted
\* timestamp stays in the window however the call ends; so a call that finds
\* RATE_LIMIT_PER_MINUTE calls admitted is answered RateLimitExceeded, and no
\* more than that many are admitted.
C20_ChargedOnAdmission ==
    /\ [][\A r \in Threads :
             (req[r].pc \in {"handler", "call", "sleep", "done"} /\ Moves(r))
             => RATE_LIMITER' = RATE_LIMITER]_vars
    /\ [](\A u \in DOMAIN RATE_LIMITER :
             /\ RATE_LIMITER[u] = AdmittedTimes(u)
             /\ Len(AdmittedTimes(u)) <= RATE_LIMIT_PER_MINUTE)
    /\ [](\A r \in Threads :
             ( /\ Answered(r)
               /\ ~req[r].charged
               /\ req[r].response # InvalidAPIKey )
             => /\ Rejected(r)
                /\ Len(AdmittedTimes(req[r].user_id)) = RATE_LIMIT_PER_MINUTE)

\* C20's case: the external service was down all along, five calls were
\* admitted and failed, and the sixth is answered RateLimitExceeded.
C20_Witness ==
    /\ Len(AdmittedTimes(TEST_USER)) = RATE_LIMIT_PER_MINUTE
    /\ Len(RATE_LIMITER[TEST_USER]) = RATE_LIMIT_PER_MINUTE
    /\ \E r \in Threads : Rejected(r) /\ req[r].user_id = TEST_USER

=============================================================================
